---- MODULE Spec2Model ----
(***************************************************************************)
(* Model of main.py: the satellite tile downloader.                        *)
(*                                                                         *)
(* Coordinates are whole degrees.  For whole-degree inputs the integer     *)
(* arithmetic below gives the same tile indices as the floating point      *)
(* code: (lon+180)/360*2^z is within 2^-30 of the exact value and the      *)
(* exact value is either an integer (then the float is exact) or at least  *)
(* 1/360 away from one.                                                    *)
(***************************************************************************)
EXTENDS Integers, Sequences, FiniteSets, TLC

\* ---------------------------------------------------------------- bounds
MaxRuns == 2          \* calls of download_satellite_tiles in one behaviour
MaxTime == 2          \* last clock tick of time.time() that is modelled
MaxTiles == 520       \* largest tile count given to get_optimal_workers

\* ------------------------------------------------------ program constants
MaxZoom == 20
MercatorBits == 24
RateHistory == 5
SmallLimit == 100
MediumLimit == 500
SmallWorkers == 15
MediumWorkers == 10
LargeWorkers == 8

TILE_SIZE == 256

NoTime == -1          \* start_time = None

Pow2(k) == 2 ^ k

Min2(a, b) == IF a <= b THEN a ELSE b
Max2(a, b) == IF a >= b THEN a ELSE b

\* ------------------------------------------------------------- geometry
\* Latitudes (degrees) for which the Mercator fraction is tabulated.
Latitudes == {-85, -60, -34, 0, 37, 60, 85}
Longitudes == {-180, -122, 0, 37, 180}

\* floor(2^24 * (1 - ln(tan(lat) + 1/cos(lat)) / pi) / 2), the value the
\* expression of latlon_to_tile takes at n = 2^24.
MercatorFraction(lat) ==
    CASE lat = -85 -> 16749736
      [] lat = -60 -> 11905118
      [] lat = -34 -> 10075246
      [] lat = 0   -> 8388608
      [] lat = 37  -> 6530196
      [] lat = 60  -> 4872097
      [] lat = 85  -> 27479

\* latlon_to_tile(lat, lon, zoom) -> <<x_tile, y_tile>>
latlon_to_tile(lat, lon, zoom) ==
    LET n == Pow2(zoom)
        x_tile == ((lon + 180) * n) \div 360
        y_tile == MercatorFraction(lat) \div Pow2(MercatorBits - zoom)
    IN  <<x_tile, y_tile>>

\* A coordinate is <<lat, lon>>, as in top_left_coord / bottom_right_coord.
NoRect == [min_tile_x |-> 0, max_tile_x |-> -1, min_tile_y |-> 0, max_tile_y |-> -1]

\* Variant: the top-left corner's column is taken for the minimum.
top_left_tile_x_of(a, b) == a

min_tile_x_of(a, b) == Min2(a, b)

\* The tile range of download_satellite_tiles.
TileRange(top_left_coord_, bottom_right_coord_, zoom) ==
    LET tl == latlon_to_tile(top_left_coord_[1], top_left_coord_[2], zoom)
        br == latlon_to_tile(bottom_right_coord_[1], bottom_right_coord_[2], zoom)
    IN  [min_tile_x |-> min_tile_x_of(tl[1], br[1]),
         max_tile_x |-> Max2(tl[1], br[1]),
         min_tile_y |-> Min2(tl[2], br[2]),
         max_tile_y |-> Max2(tl[2], br[2])]

TileCount(r) ==
    (r.max_tile_x - r.min_tile_x + 1) * (r.max_tile_y - r.min_tile_y + 1)

TilesOf(r) ==
    {<<x, y>> : x \in r.min_tile_x .. r.max_tile_x,
                y \in r.min_tile_y .. r.max_tile_y}

\* Position of tile t in the row-major (y outer, x inner) submission loop.
RowMajorIndex(r, t) ==
    (t[2] - r.min_tile_y) * (r.max_tile_x - r.min_tile_x + 1)
        + (t[1] - r.min_tile_x) + 1

\* --------------------------------------------------------- worker policy
\* Variant: the small tier without min(15, total_tiles).
get_optimal_workers_nomin(total_tiles) ==
    IF total_tiles < SmallLimit
    THEN SmallWorkers
    ELSE IF total_tiles < MediumLimit
         THEN MediumWorkers
         ELSE LargeWorkers

get_optimal_workers(total_tiles) ==
    IF total_tiles < SmallLimit
    THEN Min2(SmallWorkers, total_tiles)
    ELSE IF total_tiles < MediumLimit
         THEN MediumWorkers
         ELSE LargeWorkers

\* ------------------------------------------------------------------ CRS
\* CRS strings: the default geographic CRS, the tiling CRS, one more
\* projected CRS, and a string CRS.from_string cannot resolve.
DefaultCRS == "EPSG:4326"
TilingCRS == "EPSG:3857"
ResolvableCRS == {"EPSG:4326", "EPSG:3857", "EPSG:32633"}
CRSStrings == ResolvableCRS \cup {"bogus"}

\* Variant: no fallback, the unresolved string is passed on.
get_crs_info_nofallback(crs_string) == crs_string

\* get_crs_info(crs_string): the CRS, EPSG:4326 when the string is invalid.
get_crs_info(crs_string) ==
    IF crs_string \in ResolvableCRS THEN crs_string ELSE DefaultCRS

\* target_crs.is_geographic
is_geographic(target_crs) == target_crs = "EPSG:4326"

\* ------------------------------------------------------------ run inputs
\* Inputs of the runs whose workers are interleaved: zoom 2, corners in the
\* tile columns 0, 1 and 2 of one row, so a run has one to three tiles.
RunZooms == {2}
RunCoords == {<<37, -122>>, <<37, -60>>, <<37, 0>>}
RunCRS == {DefaultCRS}

\* The tiles of the rectangles the runs above can ask for ...
RunRectTiles == UNION {TilesOf(TileRange(a, b, z)) : a \in RunCoords, b \in RunCoords, z \in RunZooms}

\* ... and a row of six tiles, one run long enough to fill the rate history.
RateZooms == {3}
RateTopLeft == <<37, -180>>
RateBottomRight == <<37, 45>>
RateRect(z) == TileRange(RateTopLeft, RateBottomRight, z)
RateTiles == UNION {TilesOf(RateRect(z)) : z \in RateZooms}

AllTiles == RunRectTiles \cup RateTiles

\* Key of a tile file, "{zoom}_{x}_{y}.jpg".
TileKey(zoom, t) == <<zoom, t[1], t[2]>>

MainThread == <<-1, -1>>
NoAccess == [who |-> <<>>, locked |-> FALSE]

VARIABLES
    tile_store,               \* keys of the tile files that exist
    downloaded_tiles_count, total_tiles_to_download,
    start_time, download_rates,
    progress_lock,            \* <<>> when free, <<holder>> when held
    now,                      \* time.time()
    top_left_coord, bottom_right_coord, zoom_level,
    crs,                      \* the CRS string given to the run
    rect, optimal_workers,
    main_pc, futures, unit_pc,
    unit_result, fetch_attempts, jitter_sleeps,
    loaded_count,             \* the counter value a unit read for its += 1
    last_access,              \* who touched the progress state in the last step
    eta,                      \* ETA text of the last progress line
    run_outcome, out_files, stitched_image,
    world_file, aux_xml,      \* contents of the .jgw and .aux.xml sidecars
    runs, store_at_start,
    swapped_rect,
    pool_pending, pool_running

progress == <<downloaded_tiles_count, total_tiles_to_download, start_time, download_rates>>
inputs == <<top_left_coord, bottom_right_coord, zoom_level, crs>>
units == <<futures, unit_pc, unit_result, fetch_attempts, jitter_sleeps, loaded_count>>
outputs == <<run_outcome, out_files, stitched_image, world_file, aux_xml>>
pool == <<pool_pending, pool_running>>

vars == <<tile_store, progress, progress_lock, now, inputs, rect, optimal_workers,
          main_pc, units, last_access, eta, outputs, runs, store_at_start,
          swapped_rect, pool>>

\* A block of the mosaic that no tile was pasted on (the black of Image.new).
Background == <<>>

NoImage == [img_width |-> 0, img_height |-> 0, blocks |-> <<>>]
NoFile == <<>>

InitCommon ==
    /\ downloaded_tiles_count = 0
    /\ start_time = NoTime
    /\ download_rates = <<>>
    /\ progress_lock = <<>>
    /\ now = 0
    /\ optimal_workers = 0
    /\ futures = <<>>
    /\ unit_pc = [t \in AllTiles |-> "none"]
    /\ unit_result = [t \in AllTiles |-> "none"]
    /\ fetch_attempts = [t \in AllTiles |-> 0]
    /\ jitter_sleeps = [t \in AllTiles |-> 0]
    /\ loaded_count = [t \in AllTiles |-> 0]
    /\ last_access = NoAccess
    /\ eta = "none"
    /\ run_outcome = "none"
    /\ out_files = {}
    /\ stitched_image = NoImage
    /\ world_file = NoFile
    /\ aux_xml = NoFile
    /\ runs = 0
    /\ store_at_start = {}
    /\ swapped_rect = NoRect
    /\ pool_pending = 0
    /\ pool_running = 0

\* The module-level state of main.py (lines 90-95); the tile directory may
\* hold tiles of earlier invocations.
Init ==
    /\ InitCommon
    /\ rect = NoRect
    /\ crs = DefaultCRS
    /\ tile_store \in SUBSET {TileKey(z, t) : z \in RunZooms, t \in RunRectTiles}
    /\ total_tiles_to_download = 0
    /\ top_left_coord = <<0, 0>>
    /\ bottom_right_coord = <<0, 0>>
    /\ zoom_level = 0
    /\ main_pc = "idle"

\* ------------------------------------------------------ progress tracker
\* One throughput sample downloaded_tiles_count / elapsed_time, kept as the
\* pair <<tiles, seconds>>; the rate 0 of elapsed_time = 0 is <<0, 1>>.
CurrentRate(count, elapsed_time) ==
    IF elapsed_time > 0 THEN <<count, elapsed_time>> ELSE <<0, 1>>

\* Variant: the newest sample is dropped, not the oldest.
KeepOldest(rates) ==
    IF Len(rates) > RateHistory THEN SubSeq(rates, 1, RateHistory) ELSE rates

\* download_rates after append and pop(0).
KeepRecent(rates) ==
    IF Len(rates) > RateHistory THEN Tail(rates) ELSE rates

\* avg_rate > 0: the samples are never negative.
AvgRatePositive(rates) == \E i \in 1 .. Len(rates) : rates[i][1] > 0

\* calculate_eta(): the rate history it leaves behind ...
calculate_eta_rates(count, started, current_time, rates) ==
    IF started = NoTime \/ count = 0
    THEN rates
    ELSE KeepRecent(Append(rates, CurrentRate(count, current_time - started)))

\* ... and the text it returns ("time" stands for the three time formats).
calculate_eta(count, started, current_time, rates) ==
    IF started = NoTime \/ count = 0
    THEN "Calculating..."
    ELSE IF AvgRatePositive(calculate_eta_rates(count, started, current_time, rates))
         THEN "time"
         ELSE "Calculating..."

\* update_progress() with the counter already at count.
update_progress(count, started, current_time) ==
    IF count > 0
    THEN /\ download_rates' = calculate_eta_rates(count, started, current_time, download_rates)
         /\ eta' = calculate_eta(count, started, current_time, download_rates)
    ELSE UNCHANGED <<download_rates, eta>>

\* The values time.time() may return to a caller running at clock tick now.
ClockReads == now .. Min2(now + 1, MaxTime)

Access(who) == [who |-> who, locked |-> progress_lock = <<who>>]

\* ------------------------------------------------------------ the workers
Running == {t \in AllTiles : unit_pc[t] \notin {"none", "queued", "done"}}

\* The executor hands out work items in submission order.
NextQueued(t) ==
    /\ unit_pc[t] = "queued"
    /\ \A i \in 1 .. Len(futures) :
          unit_pc[futures[i]] = "queued" => i >= RowMajorIndex(rect, t)

\* Variant: the exists test is skipped, every tile is fetched.
StartUnitNoCache(t) ==
    /\ NextQueued(t)
    /\ Cardinality(Running) < optimal_workers
    /\ unit_pc' = [unit_pc EXCEPT ![t] = "sleep"]
    /\ last_access' = NoAccess
    /\ UNCHANGED <<tile_store, progress, progress_lock, now, inputs, rect,
                   optimal_workers, main_pc, futures, unit_result, fetch_attempts,
                   jitter_sleeps, loaded_count, eta, outputs, runs, store_at_start,
                   swapped_rect, pool>>

\* A pool thread takes the unit and runs download_tile up to the exists test.
StartUnit(t) ==
    /\ NextQueued(t)
    /\ Cardinality(Running) < optimal_workers
    /\ unit_pc' = [unit_pc EXCEPT ![t] =
           IF TileKey(zoom_level, t) \in tile_store THEN "hit_lock" ELSE "sleep"]
    /\ last_access' = NoAccess
    /\ UNCHANGED <<tile_store, progress, progress_lock, now, inputs, rect,
                   optimal_workers, main_pc, futures, unit_result, fetch_attempts,
                   jitter_sleeps, eta, outputs, runs, store_at_start, swapped_rect, pool,
                   loaded_count>>

\* Variant: the lock is taken without waiting for its holder.
AcquireWithoutLock(t) ==
    /\ unit_pc[t] \in {"hit_lock", "ok_lock", "err_lock"}
    /\ progress_lock' = <<t>>
    /\ unit_pc' = [unit_pc EXCEPT ![t] =
           CASE unit_pc[t] = "hit_lock" -> "hit_cs"
             [] unit_pc[t] = "ok_lock"  -> "ok_cs"
             [] unit_pc[t] = "err_lock" -> "err_cs"]
    /\ last_access' = NoAccess
    /\ UNCHANGED <<tile_store, progress, now, inputs, rect, optimal_workers,
                   main_pc, futures, unit_result, fetch_attempts, jitter_sleeps,
                   loaded_count, eta, outputs, runs, store_at_start, swapped_rect, pool>>

\* Variant: the cached-tile path counts without "with progress_lock".
AcquireLockSkipHit(t) ==
    /\ unit_pc[t] \in {"hit_lock", "ok_lock", "err_lock"}
    /\ unit_pc[t] # "hit_lock" => progress_lock = <<>>
    /\ progress_lock' = IF unit_pc[t] = "hit_lock" THEN progress_lock ELSE <<t>>
    /\ unit_pc' = [unit_pc EXCEPT ![t] =
           CASE unit_pc[t] = "hit_lock" -> "hit_cs"
             [] unit_pc[t] = "ok_lock"  -> "ok_cs"
             [] unit_pc[t] = "err_lock" -> "err_cs"]
    /\ last_access' = NoAccess
    /\ UNCHANGED <<tile_store, progress, now, inputs, rect, optimal_workers,
                   main_pc, futures, unit_result, fetch_attempts, jitter_sleeps,
                   loaded_count, eta, outputs, runs, store_at_start, swapped_rect, pool>>

\* with progress_lock: (lines 185, 201, 209, 212)
AcquireLock(t) ==
    /\ unit_pc[t] \in {"hit_lock", "ok_lock", "err_lock"}
    /\ progress_lock = <<>>
    /\ progress_lock' = <<t>>
    /\ unit_pc' = [unit_pc EXCEPT ![t] =
           CASE unit_pc[t] = "hit_lock" -> "hit_cs"
             [] unit_pc[t] = "ok_lock"  -> "ok_cs"
             [] unit_pc[t] = "err_lock" -> "err_cs"]
    /\ last_access' = NoAccess
    /\ UNCHANGED <<tile_store, progress, now, inputs, rect, optimal_workers,
                   main_pc, futures, unit_result, fetch_attempts, jitter_sleeps,
                   eta, outputs, runs, store_at_start, swapped_rect, pool,
                   loaded_count>>

\* downloaded_tiles_count += 1 first reads the global (lines 186 and
\* 202-204; on the download path start_time is set before it).
LoadCount(t) ==
    /\ unit_pc[t] \in {"hit_cs", "ok_cs"}
    /\ loaded_count' = [loaded_count EXCEPT ![t] = downloaded_tiles_count]
    /\ start_time' = IF unit_pc[t] = "ok_cs" /\ start_time = NoTime THEN now ELSE start_time
    /\ unit_pc' = [unit_pc EXCEPT ![t] = IF unit_pc[t] = "hit_cs" THEN "hit_inc" ELSE "ok_inc"]
    /\ last_access' = Access(t)
    /\ UNCHANGED <<tile_store, downloaded_tiles_count, total_tiles_to_download,
                   download_rates, progress_lock, now, inputs, rect, optimal_workers,
                   main_pc, futures, unit_result, fetch_attempts, jitter_sleeps,
                   eta, outputs, runs, store_at_start, swapped_rect, pool>>

\* The cached tile: count it, show progress, leave the lock, return.
CacheHit(t) ==
    /\ unit_pc[t] = "hit_inc"
    /\ \E current_time \in ClockReads :
          /\ downloaded_tiles_count' = loaded_count[t] + 1
          /\ update_progress(loaded_count[t] + 1, start_time, current_time)
          /\ now' = current_time
    /\ last_access' = Access(t)
    /\ progress_lock' = <<>>
    /\ unit_pc' = [unit_pc EXCEPT ![t] = "done"]
    /\ unit_result' = [unit_result EXCEPT ![t] = "cached"]
    /\ UNCHANGED <<tile_store, total_tiles_to_download, start_time, inputs, rect,
                   optimal_workers, main_pc, futures, fetch_attempts, jitter_sleeps,
                   outputs, runs, store_at_start, swapped_rect, pool,
                   loaded_count>>

\* Variant: the sleep is taken inside "with progress_lock".
JitterSleepLocked(t) ==
    /\ unit_pc[t] = "sleep"
    /\ progress_lock = <<>>
    /\ progress_lock' = <<t>>
    /\ unit_pc' = [unit_pc EXCEPT ![t] = "request"]
    /\ jitter_sleeps' = [jitter_sleeps EXCEPT ![t] = @ + 1]
    /\ last_access' = NoAccess
    /\ UNCHANGED <<tile_store, progress, now, inputs, rect, optimal_workers,
                   main_pc, futures, unit_result, fetch_attempts, loaded_count,
                   eta, outputs, runs, store_at_start, swapped_rect, pool>>

\* time.sleep(0.2 + 0.3 * random.random())
JitterSleep(t) ==
    /\ unit_pc[t] = "sleep"
    /\ unit_pc' = [unit_pc EXCEPT ![t] = "request"]
    /\ jitter_sleeps' = [jitter_sleeps EXCEPT ![t] = @ + 1]
    /\ last_access' = NoAccess
    /\ UNCHANGED <<tile_store, progress, progress_lock, now, inputs, rect,
                   optimal_workers, main_pc, futures, unit_result, fetch_attempts,
                   eta, outputs, runs, store_at_start, swapped_rect, pool,
                   loaded_count>>

\* requests.get + raise_for_status: the answer, or a RequestException.
Request(t) ==
    /\ unit_pc[t] = "request"
    /\ fetch_attempts' = [fetch_attempts EXCEPT ![t] = @ + 1]
    /\ \E ok \in BOOLEAN :
          /\ unit_pc' = [unit_pc EXCEPT ![t] = IF ok THEN "save" ELSE "err_lock"]
          /\ unit_result' = [unit_result EXCEPT ![t] = IF ok THEN @ ELSE "request_error"]
    /\ last_access' = NoAccess
    /\ UNCHANGED <<tile_store, progress, progress_lock, now, inputs, rect,
                   optimal_workers, main_pc, futures, jitter_sleeps,
                   eta, outputs, runs, store_at_start, swapped_rect, pool,
                   loaded_count>>

\* Variant: the tile file is created before the decoder fails.
DecodeAndSavePartial(t) ==
    /\ unit_pc[t] = "save"
    /\ \E ok \in BOOLEAN :
          /\ tile_store' = tile_store \cup {TileKey(zoom_level, t)}
          /\ unit_pc' = [unit_pc EXCEPT ![t] = IF ok THEN "ok_lock" ELSE "err_lock"]
          /\ unit_result' = [unit_result EXCEPT ![t] = IF ok THEN @ ELSE "unexpected_error"]
    /\ last_access' = NoAccess
    /\ UNCHANGED <<progress, progress_lock, now, inputs, rect,
                   optimal_workers, main_pc, futures, fetch_attempts, jitter_sleeps,
                   loaded_count, eta, outputs, runs, store_at_start, swapped_rect, pool>>

\* Variant: a decoder failure is passed over and the tile counted.
DecodeAndSaveCountsFailure(t) ==
    /\ unit_pc[t] = "save"
    /\ \E ok \in BOOLEAN :
          tile_store' = IF ok THEN tile_store \cup {TileKey(zoom_level, t)} ELSE tile_store
    /\ unit_pc' = [unit_pc EXCEPT ![t] = "ok_lock"]
    /\ last_access' = NoAccess
    /\ UNCHANGED <<progress, progress_lock, now, inputs, rect, optimal_workers,
                   main_pc, futures, unit_result, fetch_attempts, jitter_sleeps,
                   loaded_count, eta, outputs, runs, store_at_start, swapped_rect, pool>>

\* Image.open + img.save: the tile file, or an exception of the decoder.
DecodeAndSave(t) ==
    /\ unit_pc[t] = "save"
    /\ \E ok \in BOOLEAN :
          /\ tile_store' = IF ok THEN tile_store \cup {TileKey(zoom_level, t)} ELSE tile_store
          /\ unit_pc' = [unit_pc EXCEPT ![t] = IF ok THEN "ok_lock" ELSE "err_lock"]
          /\ unit_result' = [unit_result EXCEPT ![t] = IF ok THEN @ ELSE "unexpected_error"]
    /\ last_access' = NoAccess
    /\ UNCHANGED <<progress, progress_lock, now, inputs, rect,
                   optimal_workers, main_pc, futures, fetch_attempts, jitter_sleeps,
                   eta, outputs, runs, store_at_start, swapped_rect, pool,
                   loaded_count>>

\* Lines 204-206: the tile was saved and is counted.
Downloaded(t) ==
    /\ unit_pc[t] = "ok_inc"
    /\ \E current_time \in ClockReads :
          /\ downloaded_tiles_count' = loaded_count[t] + 1
          /\ update_progress(loaded_count[t] + 1, start_time, current_time)
          /\ now' = current_time
    /\ UNCHANGED start_time
    /\ last_access' = Access(t)
    /\ progress_lock' = <<>>
    /\ unit_pc' = [unit_pc EXCEPT ![t] = "done"]
    /\ unit_result' = [unit_result EXCEPT ![t] = "saved"]
    /\ UNCHANGED <<tile_store, total_tiles_to_download, inputs, rect,
                   optimal_workers, main_pc, futures, fetch_attempts, jitter_sleeps,
                   outputs, runs, store_at_start, swapped_rect, pool,
                   loaded_count>>

\* Variant: the handler returns without leaving the lock.
ErrorHandlerKeepsLock(t) ==
    /\ unit_pc[t] = "err_cs"
    /\ unit_pc' = [unit_pc EXCEPT ![t] = "done"]
    /\ last_access' = NoAccess
    /\ UNCHANGED <<tile_store, progress, progress_lock, now, inputs, rect,
                   optimal_workers, main_pc, futures, unit_result, fetch_attempts,
                   jitter_sleeps, loaded_count, eta, outputs, runs, store_at_start,
                   swapped_rect, pool>>

\* Lines 208-213: the error is printed under the lock, nothing else.
ErrorHandler(t) ==
    /\ unit_pc[t] = "err_cs"
    /\ progress_lock' = <<>>
    /\ unit_pc' = [unit_pc EXCEPT ![t] = "done"]
    /\ last_access' = NoAccess
    /\ UNCHANGED <<tile_store, progress, now, inputs, rect, optimal_workers,
                   main_pc, futures, unit_result, fetch_attempts, jitter_sleeps,
                   eta, outputs, runs, store_at_start, swapped_rect, pool,
                   loaded_count>>

download_tile(t) ==
    \/ StartUnit(t)
    \/ AcquireLock(t)
    \/ LoadCount(t)
    \/ CacheHit(t)
    \/ JitterSleep(t)
    \/ Request(t)
    \/ DecodeAndSave(t)
    \/ Downloaded(t)
    \/ ErrorHandler(t)

\* ------------------------------------------------------- the mosaic builder
StitchFailures == {"none", "compose", "save", "world", "aux"}

\* ------------------------------------------- double-precision arithmetic
\* The floats of tile_to_meters and create_world_file are IEEE-754 doubles.
\* A magnitude is the sequence of base-2^15 digits, lowest first and without
\* leading zeros, of a count of 2^-QuantumBits metres: every double these
\* functions produce for zoom 0..20 is a whole number of such units.  A float
\* is a sign and a magnitude.
QuantumBits == 55
MantissaBits == 53
FormatDigits == 10
LimbBits == 15
Base == Pow2(LimbBits)

Zero == [neg |-> FALSE, mag |-> <<>>]

RECURSIVE Trim(_)
Trim(a) ==
    IF a = <<>> THEN a
    ELSE IF a[Len(a)] = 0 THEN Trim(SubSeq(a, 1, Len(a) - 1)) ELSE a

Limb(a, i) == IF i <= Len(a) THEN a[i] ELSE 0
Rest(a) == IF a = <<>> THEN a ELSE Tail(a)

RECURSIVE AddCarry(_, _, _)
AddCarry(a, b, carry) ==
    IF a = <<>> /\ b = <<>>
    THEN IF carry = 0 THEN <<>> ELSE <<carry>>
    ELSE LET sum == Limb(a, 1) + Limb(b, 1) + carry
         IN  <<sum % Base>> \o AddCarry(Rest(a), Rest(b), sum \div Base)

MagAdd(a, b) == AddCarry(a, b, 0)

\* a - b for a >= b.
RECURSIVE SubBorrow(_, _, _)
SubBorrow(a, b, borrow) ==
    IF a = <<>>
    THEN <<>>
    ELSE LET diff == Limb(a, 1) - Limb(b, 1) - borrow
         IN  <<(diff + Base) % Base>> \o
             SubBorrow(Rest(a), Rest(b), IF diff < 0 THEN 1 ELSE 0)

MagSub(a, b) == Trim(SubBorrow(a, b, 0))

MagLess(a, b) ==
    \/ Len(a) < Len(b)
    \/ /\ Len(a) = Len(b)
       /\ \E i \in 1 .. Len(a) :
             /\ a[i] < b[i]
             /\ \A j \in i + 1 .. Len(a) : a[j] = b[j]

\* a * n for 0 <= n < 2^15.
RECURSIVE TimesCarry(_, _, _)
TimesCarry(a, n, carry) ==
    IF a = <<>>
    THEN IF carry = 0 THEN <<>> ELSE <<carry>>
    ELSE LET product == a[1] * n + carry
         IN  <<product % Base>> \o TimesCarry(Tail(a), n, product \div Base)

TimesLimb(a, n) == IF n = 0 THEN <<>> ELSE TimesCarry(a, n, 0)

ShiftLimbs(a, q) == IF a = <<>> THEN a ELSE [i \in 1 .. q |-> 0] \o a

\* a * n for a natural number n.
RECURSIVE MagTimes(_, _)
MagTimes(a, n) ==
    IF n < Base
    THEN TimesLimb(a, n)
    ELSE MagAdd(TimesLimb(a, n % Base), ShiftLimbs(MagTimes(a, n \div Base), 1))

\* a * 2^k, a div 2^k, a mod 2^k.
ShiftLeft(a, k) == ShiftLimbs(TimesLimb(a, Pow2(k % LimbBits)), k \div LimbBits)

ShiftRight(a, k) ==
    LET q == k \div LimbBits
        r == k % LimbBits
    IN  IF Len(a) <= q
        THEN <<>>
        ELSE Trim([i \in 1 .. Len(a) - q |->
                      (a[i + q] \div Pow2(r))
                          + (Limb(a, i + q + 1) % Pow2(r)) * Pow2(LimbBits - r)])

LowBits(a, k) ==
    LET q == k \div LimbBits
        r == k % LimbBits
    IN  IF Len(a) <= q
        THEN a
        ELSE Trim(SubSeq(a, 1, q) \o <<a[q + 1] % Pow2(r)>>)

\* Number of binary digits of a.
BitLength(a) ==
    IF a = <<>>
    THEN 0
    ELSE (Len(a) - 1) * LimbBits
            + (CHOOSE k \in 1 .. LimbBits : Pow2(k - 1) <= a[Len(a)] /\ a[Len(a)] < Pow2(k))

IsOdd(a) == Limb(a, 1) % 2 = 1

\* a / 2^k rounded to the nearest whole number, a tie to the even one.
RoundShift(a, k) ==
    IF k <= 0
    THEN a
    ELSE LET quotient == ShiftRight(a, k)
             remainder == LowBits(a, k)
             half == ShiftLeft(<<1>>, k - 1)
         IN  IF MagLess(half, remainder) \/ (remainder = half /\ IsOdd(quotient))
             THEN MagAdd(quotient, <<1>>)
             ELSE quotient

\* The double nearest to an exact value: 53 significant binary digits.
RoundToDouble(f) ==
    LET k == BitLength(f.mag) - MantissaBits
    IN  IF k <= 0 THEN f ELSE [neg |-> f.neg, mag |-> ShiftLeft(RoundShift(f.mag, k), k)]

Negated(f) == IF f.mag = <<>> THEN f ELSE [neg |-> ~f.neg, mag |-> f.mag]

ExactSum(f, g) ==
    IF f.neg = g.neg
    THEN [neg |-> f.neg, mag |-> MagAdd(f.mag, g.mag)]
    ELSE IF f.mag = g.mag
         THEN Zero
         ELSE IF MagLess(f.mag, g.mag)
              THEN [neg |-> g.neg, mag |-> MagSub(g.mag, f.mag)]
              ELSE [neg |-> f.neg, mag |-> MagSub(f.mag, g.mag)]

\* f + g, f - g and n * f as the float operators + - * compute them.
FloatAdd(f, g) == RoundToDouble(ExactSum(f, g))
FloatSub(f, g) == RoundToDouble(ExactSum(f, Negated(g)))
FloatTimesInt(n, f) ==
    RoundToDouble([neg |-> f.neg /\ n # 0, mag |-> MagTimes(f.mag, n)])

\* |f - g| <= 2^k units.
WithinPow2(f, g, k) ==
    ~MagLess(ShiftLeft(<<1>>, k), ExactSum(f, Negated(g)).mag)

\* f"{value:.10f}": the decimal with 10 fractional digits nearest to the
\* double, kept as its sign and its count of 10^-10.
RECURSIVE TimesPow10(_, _)
TimesPow10(a, digits) ==
    IF digits = 0 THEN a ELSE TimesPow10(TimesLimb(a, 10), digits - 1)

FormatFixed(f) ==
    LET count == RoundShift(TimesPow10(f.mag, FormatDigits), QuantumBits)
    IN  [neg |-> f.neg, mag |-> count]

\* ORIGIN_SHIFT = 20037508.342789244 is the double 5378777689100435 * 2^-28
\* (line 15); the base-2^15 digits of 5378777689100435, lowest first.
ORIGIN_SHIFT_mantissa == <<4243, 2808, 28641, 152>>
ORIGIN_SHIFT_exponent == -28

ORIGIN_SHIFT ==
    [neg |-> FALSE, mag |-> ShiftLeft(ORIGIN_SHIFT_mantissa, QuantumBits + ORIGIN_SHIFT_exponent)]

\* resolution = 2 * ORIGIN_SHIFT / (TILE_SIZE * 2**zoom): a division by a
\* power of two, exact in binary.
resolution(zoom) ==
    [neg |-> FALSE,
     mag |-> ShiftLeft(ORIGIN_SHIFT_mantissa,
                       QuantumBits + ORIGIN_SHIFT_exponent + 1 - 8 - zoom)]

\* tile_to_meters(x, y, zoom) -> <<mx, my>>
tile_to_meters(x, y, zoom) ==
    <<FloatSub(FloatTimesInt(x * TILE_SIZE, resolution(zoom)), ORIGIN_SHIFT),
      FloatSub(ORIGIN_SHIFT, FloatTimesInt(y * TILE_SIZE, resolution(zoom)))>>

\* transformer.transform(px, py) of Transformer.from_crs(web_mercator,
\* target_crs) when the target is the tiling CRS: the point itself.
transform(px, py) == <<px, py>>

\* Variant: origin y is written before origin x.
world_file_lines_swapped(pixel_size_x, pixel_size_y, top_left_x, top_left_y) ==
    <<pixel_size_x, Zero, Zero, pixel_size_y, top_left_y, top_left_x>>

\* Lines 66-72: the six values in the order they are written.
world_file_lines(pixel_size_x, pixel_size_y, top_left_x, top_left_y) ==
    <<pixel_size_x, Zero, Zero, pixel_size_y, top_left_x, top_left_y>>

\* create_world_file(...): the six values computed and the six lines of the
\* .jgw file.  For a target other than the tiling CRS the values come out of
\* the projection library and are not computed here: the record names the
\* tile whose corner is transformed and the pixels between the two
\* transformed points (the whole mosaic for a geographic target, one pixel
\* for a projected one).
create_world_file(x, y, zoom, tile_count_x, tile_count_y, target_crs) ==
    IF target_crs = TilingCRS
    THEN LET res == resolution(zoom)
             m == tile_to_meters(x, y, zoom)
             top_left == transform(m[1], m[2])
             next_pixel == transform(FloatAdd(m[1], res), FloatSub(m[2], res))
             values == world_file_lines(FloatSub(next_pixel[1], top_left[1]),
                                        FloatSub(next_pixel[2], top_left[2]),
                                        top_left[1], top_left[2])
         IN  [target_crs |-> target_crs,
              values |-> values,
              lines |-> [i \in 1 .. 6 |-> FormatFixed(values[i])]]
    ELSE [target_crs |-> target_crs,
          values |-> [corner |-> <<x, y, zoom>>,
                      pixels |-> IF is_geographic(target_crs)
                                 THEN <<TILE_SIZE * tile_count_x, TILE_SIZE * tile_count_y>>
                                 ELSE <<1, 1>>],
          lines |-> [written |-> 6]]

\* create_aux_xml(filename, target_crs): the SRS the sidecar names.
create_aux_xml(target_crs) == [SRS |-> target_crs]

\* Variant: only negative sizes are refused.
NothingToStitchNegative(img_width, img_height) == img_width < 0 \/ img_height < 0

\* Line 223: if img_width <= 0 or img_height <= 0.
NothingToStitch(img_width, img_height) == img_width <= 0 \/ img_height <= 0

\* Variant: the tile is pasted at its absolute tile position.
paste_offset_absolute(t, min_x, min_y) == <<t[1] * TILE_SIZE, t[2] * TILE_SIZE>>

\* Lines 240-241: (paste_x, paste_y) of tile t.
paste_offset(t, min_x, min_y) ==
    <<(t[1] - min_x) * TILE_SIZE, (t[2] - min_y) * TILE_SIZE>>

\* Top-left corners of the tile-sized blocks of an image.
BlockOrigins(img_width, img_height) ==
    {<<i * TILE_SIZE, j * TILE_SIZE>> :
        i \in 0 .. (img_width \div TILE_SIZE) - 1,
        j \in 0 .. (img_height \div TILE_SIZE) - 1}

\* Lines 231-244: the new image with every tile file that exists pasted on
\* it; what each block shows afterwards.
ComposeImage(min_x, max_x, min_y, max_y, zoom) ==
    LET img_width == (max_x - min_x + 1) * TILE_SIZE
        img_height == (max_y - min_y + 1) * TILE_SIZE
        found == {t \in (min_x .. max_x) \X (min_y .. max_y) :
                     TileKey(zoom, t) \in tile_store}
    IN  [img_width |-> img_width, img_height |-> img_height,
         blocks |-> [b \in BlockOrigins(img_width, img_height) |->
                        IF \E t \in found : paste_offset(t, min_x, min_y) = b
                        THEN TileKey(zoom, CHOOSE t \in found :
                                               paste_offset(t, min_x, min_y) = b)
                        ELSE Background]]

\* stitch_tiles(min_x, max_x, min_y, max_y, zoom_level, crs_string): fail
\* names the statement of the try block that raises, "none" when none does.
stitch_tiles(min_x, max_x, min_y, max_y, zoom, crs_string, fail) ==
    LET img_width == (max_x - min_x + 1) * TILE_SIZE
        img_height == (max_y - min_y + 1) * TILE_SIZE
        target_crs == get_crs_info(crs_string)
    IN  IF NothingToStitch(img_width, img_height)
        THEN /\ run_outcome' = "no_valid_tiles"
             /\ out_files' = {}
             /\ stitched_image' = NoImage
             /\ world_file' = NoFile
             /\ aux_xml' = NoFile
        ELSE /\ stitched_image' =
                    IF fail = "compose"
                    THEN NoImage
                    ELSE ComposeImage(min_x, max_x, min_y, max_y, zoom)
             /\ out_files' =
                    CASE fail \in {"compose", "save"} -> {}
                      [] fail = "world" -> {"mosaic"}
                      [] fail = "aux" -> {"mosaic", "world"}
                      [] fail = "none" -> {"mosaic", "world", "aux"}
             /\ world_file' =
                    IF fail \in {"aux", "none"}
                    THEN create_world_file(min_x, min_y, zoom, max_x - min_x + 1,
                                           max_y - min_y + 1, target_crs)
                    ELSE NoFile
             /\ aux_xml' = IF fail = "none" THEN create_aux_xml(target_crs) ELSE NoFile
             /\ run_outcome' = IF fail = "none" THEN "stitched" ELSE "stitch_error"

\* -------------------------------------------------- download_satellite_tiles
\* Variant: the rate history is not emptied by the reset.
ResetRunKeepsRates ==
    /\ main_pc \in {"idle", "done"}
    /\ runs < MaxRuns
    /\ runs' = runs + 1
    /\ \E tl \in RunCoords, br \in RunCoords, z \in RunZooms, c \in RunCRS :
          /\ top_left_coord' = tl
          /\ bottom_right_coord' = br
          /\ zoom_level' = z
          /\ crs' = c
    /\ downloaded_tiles_count' = 0
    /\ total_tiles_to_download' = 0
    /\ start_time' = NoTime
    /\ last_access' = Access(MainThread)
    /\ main_pc' = "range"
    /\ futures' = <<>>
    /\ unit_pc' = [t \in AllTiles |-> "none"]
    /\ unit_result' = [t \in AllTiles |-> "none"]
    /\ fetch_attempts' = [t \in AllTiles |-> 0]
    /\ jitter_sleeps' = [t \in AllTiles |-> 0]
    /\ loaded_count' = [t \in AllTiles |-> 0]
    /\ eta' = "none"
    /\ run_outcome' = "none"
    /\ out_files' = {}
    /\ stitched_image' = NoImage
    /\ world_file' = NoFile
    /\ aux_xml' = NoFile
    /\ store_at_start' = tile_store
    /\ rect' = NoRect
    /\ optimal_workers' = 0
    /\ UNCHANGED <<tile_store, download_rates, progress_lock, now, swapped_rect, pool>>

\* Lines 266-270: the call and its reset of the tracking variables.
ResetRun ==
    /\ main_pc \in {"idle", "done"}
    /\ runs < MaxRuns
    /\ runs' = runs + 1
    /\ \E tl \in RunCoords, br \in RunCoords, z \in RunZooms, c \in RunCRS :
          /\ top_left_coord' = tl
          /\ bottom_right_coord' = br
          /\ zoom_level' = z
          /\ crs' = c
    /\ downloaded_tiles_count' = 0
    /\ total_tiles_to_download' = 0
    /\ start_time' = NoTime
    /\ download_rates' = <<>>
    /\ last_access' = Access(MainThread)
    /\ main_pc' = "range"
    /\ futures' = <<>>
    /\ unit_pc' = [t \in AllTiles |-> "none"]
    /\ unit_result' = [t \in AllTiles |-> "none"]
    /\ fetch_attempts' = [t \in AllTiles |-> 0]
    /\ jitter_sleeps' = [t \in AllTiles |-> 0]
    /\ loaded_count' = [t \in AllTiles |-> 0]
    /\ eta' = "none"
    /\ run_outcome' = "none"
    /\ out_files' = {}
    /\ stitched_image' = NoImage
    /\ world_file' = NoFile
    /\ aux_xml' = NoFile
    /\ store_at_start' = tile_store
    /\ rect' = NoRect
    /\ optimal_workers' = 0
    /\ UNCHANGED <<tile_store, progress_lock, now, swapped_rect, pool>>

\* Lines 276-287: tile range, total and worker count.
ComputeRange ==
    /\ main_pc = "range"
    /\ rect' = TileRange(top_left_coord, bottom_right_coord, zoom_level)
    /\ total_tiles_to_download' = TileCount(rect')
    /\ optimal_workers' = get_optimal_workers(total_tiles_to_download')
    /\ last_access' = Access(MainThread)
    /\ main_pc' = "submit"
    /\ UNCHANGED <<tile_store, downloaded_tiles_count, start_time, download_rates,
                   progress_lock, now, inputs, units, eta, outputs, runs,
                   store_at_start, swapped_rect, pool>>

\* Lines 295-299: one executor.submit of the row-major loop.
Submit ==
    /\ main_pc = "submit"
    /\ \E t \in TilesOf(rect) :
          /\ RowMajorIndex(rect, t) = Len(futures) + 1
          /\ futures' = Append(futures, t)
          /\ unit_pc' = [unit_pc EXCEPT ![t] = "queued"]
    /\ main_pc' = IF Len(futures') = total_tiles_to_download THEN "wait" ELSE "submit"
    /\ last_access' = NoAccess
    /\ UNCHANGED <<tile_store, progress, progress_lock, now, inputs, rect,
                   optimal_workers, unit_result, fetch_attempts, jitter_sleeps,
                   eta, outputs, runs, store_at_start, swapped_rect, pool,
                   loaded_count>>

\* Variant: the wait ends with the first completed future.
AnyFutureCompleted == \E i \in 1 .. Len(futures) : unit_pc[futures[i]] = "done"

FuturesCompleted == \A i \in 1 .. Len(futures) : unit_pc[futures[i]] = "done"

\* Lines 301-304: as_completed and the executor's shutdown(wait=True).
AsCompleted ==
    /\ main_pc = "wait"
    /\ FuturesCompleted
    /\ main_pc' = "decide"
    /\ last_access' = NoAccess
    /\ UNCHANGED <<tile_store, progress, progress_lock, now, inputs, rect,
                   optimal_workers, units, eta, outputs, runs, store_at_start,
                   swapped_rect, pool>>

\* Variant: stitch_tiles is called whatever the counter says.
DecideAlwaysStitch ==
    /\ main_pc = "decide"
    /\ last_access' = Access(MainThread)
    /\ main_pc' = "stitch"
    /\ UNCHANGED outputs
    /\ UNCHANGED <<tile_store, progress, progress_lock, now, inputs, rect,
                   optimal_workers, units, eta, runs, store_at_start,
                   swapped_rect, pool>>

\* Line 306: if downloaded_tiles_count > 0 ... else "nothing to stitch".
Decide ==
    /\ main_pc = "decide"
    /\ last_access' = Access(MainThread)
    /\ IF downloaded_tiles_count > 0
       THEN /\ main_pc' = "stitch"
            /\ UNCHANGED outputs
       ELSE /\ main_pc' = "done"
            /\ run_outcome' = "nothing"
            /\ UNCHANGED <<out_files, stitched_image, world_file, aux_xml>>
    /\ UNCHANGED <<tile_store, progress, progress_lock, now, inputs, rect,
                   optimal_workers, units, eta, runs, store_at_start,
                   swapped_rect, pool>>

\* Line 307: the call of stitch_tiles.
Stitch ==
    /\ main_pc = "stitch"
    /\ \E fail \in StitchFailures :
          stitch_tiles(rect.min_tile_x, rect.max_tile_x, rect.min_tile_y,
                       rect.max_tile_y, zoom_level, crs, fail)
    /\ main_pc' = "done"
    /\ last_access' = NoAccess
    /\ UNCHANGED <<tile_store, progress, progress_lock, now, inputs, rect,
                   optimal_workers, units, eta, runs, store_at_start,
                   swapped_rect, pool>>

\* The clock of time.time() moves on.
Tick ==
    /\ main_pc \in {"submit", "wait"}
    /\ now < MaxTime
    /\ now' = now + 1
    /\ last_access' = NoAccess
    /\ UNCHANGED <<tile_store, progress, progress_lock, inputs, rect,
                   optimal_workers, main_pc, units, eta, outputs, runs,
                   store_at_start, swapped_rect, pool>>

Next ==
    \/ ResetRun
    \/ ComputeRange
    \/ Submit
    \/ \E t \in AllTiles : download_tile(t)
    \/ AsCompleted
    \/ Decide
    \/ Stitch
    \/ Tick

Spec == Init /\ [][Next]_vars

\* Fair scheduling: while the submitting thread or some pool thread can take
\* a step of the run, one of them eventually does, and every request
\* returns.  A further call of download_satellite_tiles and the clock are
\* not forced.
MainStep == ComputeRange \/ Submit \/ AsCompleted \/ Decide \/ Stitch

FairSpec ==
    /\ Spec
    /\ WF_vars(MainStep \/ \E t \in AllTiles : download_tile(t))

\* ------------------------------------------------- geometry on its own
\* download_satellite_tiles up to its tile range (lines 276-283), for every
\* zoom and corner pair, followed by the same call with the two corners
\* exchanged.  The tile count of line 286 is left out here: at zoom 20 it
\* exceeds the integers of the model checker.
GeomCoords == Latitudes \X Longitudes

InitGeom ==
    /\ InitCommon
    /\ rect = NoRect
    /\ crs = DefaultCRS
    /\ tile_store = {}
    /\ total_tiles_to_download = 0
    /\ top_left_coord \in GeomCoords
    /\ bottom_right_coord \in GeomCoords
    /\ zoom_level \in 0 .. MaxZoom
    /\ main_pc = "range"

ComputeTileRange ==
    /\ main_pc = "range"
    /\ rect' = TileRange(top_left_coord, bottom_right_coord, zoom_level)
    /\ main_pc' = "ranged"
    /\ UNCHANGED <<tile_store, progress, progress_lock, now, inputs,
                   optimal_workers, units, last_access, eta, outputs, runs,
                   store_at_start, swapped_rect, pool>>

SwapCorners ==
    /\ main_pc = "ranged"
    /\ runs = 0
    /\ runs' = 1
    /\ swapped_rect' = rect
    /\ top_left_coord' = bottom_right_coord
    /\ bottom_right_coord' = top_left_coord
    /\ rect' = NoRect
    /\ main_pc' = "range"
    /\ UNCHANGED <<tile_store, progress, progress_lock, now, zoom_level, crs,
                   optimal_workers, units, last_access, eta, outputs,
                   store_at_start, pool>>

NextGeom ==
    \/ ComputeTileRange
    \/ SwapCorners

SpecGeom == InitGeom /\ [][NextGeom]_vars

\* ------------------------------------------------ worker policy on its own
\* get_optimal_workers for every tile count, and the executor it sizes:
\* pool_pending units wait in the queue, pool_running are in a pool thread.
InitWorkers ==
    /\ InitCommon
    /\ rect = NoRect
    /\ crs = DefaultCRS
    /\ tile_store = {}
    /\ total_tiles_to_download \in 1 .. MaxTiles
    /\ top_left_coord = <<0, 0>>
    /\ bottom_right_coord = <<0, 0>>
    /\ zoom_level = 0
    /\ main_pc = "workers"

ChooseWorkers ==
    /\ main_pc = "workers"
    /\ optimal_workers' = get_optimal_workers(total_tiles_to_download)
    /\ pool_pending' = total_tiles_to_download
    /\ main_pc' = "pool"
    /\ UNCHANGED <<tile_store, progress, progress_lock, now, inputs, rect, units,
                   last_access, eta, outputs, runs, store_at_start, swapped_rect,
                   pool_running>>

PoolStart ==
    /\ main_pc = "pool"
    /\ pool_pending > 0
    /\ pool_running < optimal_workers
    /\ pool_pending' = pool_pending - 1
    /\ pool_running' = pool_running + 1
    /\ UNCHANGED <<tile_store, progress, progress_lock, now, inputs, rect,
                   optimal_workers, main_pc, units, last_access, eta, outputs,
                   runs, store_at_start, swapped_rect>>

PoolFinish ==
    /\ main_pc = "pool"
    /\ pool_running > 0
    /\ pool_running' = pool_running - 1
    /\ UNCHANGED <<tile_store, progress, progress_lock, now, inputs, rect,
                   optimal_workers, main_pc, units, last_access, eta, outputs,
                   runs, store_at_start, swapped_rect, pool_pending>>

NextWorkers ==
    \/ ChooseWorkers
    \/ PoolStart
    \/ PoolFinish

SpecWorkers == InitWorkers /\ [][NextWorkers]_vars

\* ------------------------------------------------- stitch_tiles on its own
\* stitch_tiles called with the rectangles around tiles (163, 395) ..
\* (164, 396) of zoom 10, the empty ones included, any of these tiles in the
\* store and any CRS string.
StitchZooms == {10}
StitchMinX == 163 .. 164
StitchMaxX == 162 .. 164
StitchMinY == 395 .. 396
StitchMaxY == 394 .. 396

InitStitch ==
    /\ InitCommon
    /\ total_tiles_to_download = 0
    /\ top_left_coord = <<0, 0>>
    /\ bottom_right_coord = <<0, 0>>
    /\ zoom_level \in StitchZooms
    /\ tile_store \in SUBSET {TileKey(zoom_level, t) : t \in StitchMinX \X StitchMinY}
    /\ main_pc = "stitch"
    /\ crs \in CRSStrings
    /\ \E min_x \in StitchMinX, max_x \in StitchMaxX,
          min_y \in StitchMinY, max_y \in StitchMaxY :
          rect = [min_tile_x |-> min_x, max_tile_x |-> max_x,
                  min_tile_y |-> min_y, max_tile_y |-> max_y]

NextStitch == Stitch

SpecStitch == InitStitch /\ [][NextStitch]_vars

\* ================================================================ claims
FetchErrors == {"request_error", "unexpected_error"}
InFlight == {t \in AllTiles : unit_pc[t] \notin {"none", "done"}}
RunTiles == TilesOf(rect)
StoredRunTiles == {t \in RunTiles : TileKey(zoom_level, t) \in tile_store}
AllFiles == {"mosaic", "world", "aux"}

\* C1: once the submitting thread is past the executor block (deciding,
\* stitching or finished), every tile of the rectangle has been submitted and
\* every submitted unit has finished; no unit is pending or running.
C1_StitchAfterAllUnits ==
    main_pc \in {"decide", "stitch", "done"} =>
        /\ Len(futures) = TileCount(rect)
        /\ \A t \in RunTiles : unit_pc[t] = "done"
        /\ InFlight = {}

C1_Witness ==
    /\ main_pc = "stitch"
    /\ TileCount(rect) = 3
    /\ \E t \in RunTiles : unit_result[t] \in FetchErrors
    /\ \E t \in RunTiles : unit_result[t] = "saved"
    /\ \E t \in RunTiles : unit_result[t] = "cached"

\* C2: under fair scheduling every run that has computed its range ends,
\* with every unit of its rectangle finished, whichever fetches fail; and the
\* step in which one unit's fetch fails changes no other unit.
C2_FailuresDoNotStopTheRun ==
    /\ (main_pc = "submit") ~> (main_pc = "done" /\ \A t \in RunTiles : unit_pc[t] = "done")
    /\ [][\A t \in AllTiles :
            (unit_pc[t] # "err_lock" /\ unit_pc'[t] = "err_lock") =>
                \A u \in AllTiles \ {t} :
                    unit_pc'[u] = unit_pc[u] /\ unit_result'[u] = unit_result[u]]_vars

C2_Witness ==
    /\ main_pc = "done"
    /\ TileCount(rect) = 3
    /\ Cardinality({t \in RunTiles : unit_result[t] \in FetchErrors}) = 2
    /\ \E t \in RunTiles : unit_result[t] = "saved"

AllCachedAtStart ==
    /\ main_pc \notin {"idle", "range"}
    /\ \A t \in RunTiles : TileKey(zoom_level, t) \in store_at_start

\* C3: a run that starts with every tile of its rectangle in the store makes
\* no request and no jitter sleep, and ends with completed = total.
C3_FullyCachedRun ==
    AllCachedAtStart =>
        /\ \A t \in AllTiles : fetch_attempts[t] = 0 /\ jitter_sleeps[t] = 0
        /\ main_pc = "done" => downloaded_tiles_count = total_tiles_to_download

C3_Witness ==
    /\ AllCachedAtStart
    /\ main_pc = "done"
    /\ total_tiles_to_download = 3
    /\ downloaded_tiles_count = 3
    /\ \A t \in RunTiles : unit_result[t] = "cached"

\* C4: no tile is requested twice in a run, the tile of a failed unit is not
\* in the store, and no step of a failed unit changes the completed counter,
\* the start timestamp, the rate history or the store.
C4_NoRetryAndFailureLeavesNothing ==
    /\ [](\A t \in AllTiles :
            /\ fetch_attempts[t] <= 1
            /\ unit_result[t] \in FetchErrors => TileKey(zoom_level, t) \notin tile_store)
    /\ [][\A t \in AllTiles :
            (unit_result'[t] \in FetchErrors /\ unit_pc'[t] # unit_pc[t]) =>
                UNCHANGED <<downloaded_tiles_count, start_time, download_rates, tile_store>>]_vars

C4_Witness ==
    /\ main_pc = "done"
    /\ downloaded_tiles_count > 0
    /\ start_time # NoTime
    /\ \E t \in RunTiles :
          /\ unit_result[t] = "unexpected_error"
          /\ fetch_attempts[t] = 1
          /\ TileKey(zoom_level, t) \notin tile_store

\* C5 as stated: a finished run is either 'stitched' with the mosaic and both
\* sidecars written (completed > 0) or 'nothing to stitch' with no output
\* (completed = 0).
C5_TwoTerminalStates ==
    main_pc = "done" =>
        \/ /\ downloaded_tiles_count > 0
           /\ run_outcome = "stitched"
           /\ out_files = AllFiles
        \/ /\ downloaded_tiles_count = 0
           /\ run_outcome = "nothing"
           /\ out_files = {}

\* C5 amended: a finished run is in exactly one of three states: 'stitched'
\* with all three files, or 'stitch error' (an exception caught inside
\* stitch_tiles, not all files written), both with completed > 0, or
\* 'nothing to stitch' with no output and completed = 0.
C5_ThreeTerminalStates ==
    main_pc = "done" =>
        \/ /\ downloaded_tiles_count > 0
           /\ run_outcome = "stitched"
           /\ out_files = AllFiles
        \/ /\ downloaded_tiles_count > 0
           /\ run_outcome = "stitch_error"
           /\ out_files # AllFiles
        \/ /\ downloaded_tiles_count = 0
           /\ run_outcome = "nothing"
           /\ out_files = {}

C5_Witness ==
    /\ main_pc = "done"
    /\ run_outcome = "stitch_error"
    /\ out_files = {"mosaic"}
    /\ downloaded_tiles_count > 0

\* C6: after all units of a run have finished, the completed counter equals
\* the number of tiles of the rectangle that are in the store.
C6_CountEqualsStoredTiles ==
    main_pc \in {"decide", "stitch", "done"} =>
        downloaded_tiles_count = Cardinality(StoredRunTiles)

C6_Witness ==
    /\ main_pc = "decide"
    /\ total_tiles_to_download = 3
    /\ downloaded_tiles_count = 2
    /\ \E t \in RunTiles : unit_result[t] = "cached"
    /\ \E t \in RunTiles : unit_result[t] = "saved"
    /\ \E t \in RunTiles : unit_result[t] = "request_error"

\* C7 as stated: whoever reads or writes the progress state, a worker or the
\* submitting thread, holds the progress lock while doing so.
C7_EveryAccessLocked ==
    last_access.who # <<>> => last_access.locked

\* C7 amended: a worker reads and writes the progress state only while it
\* holds the progress lock; the submitting thread does so without the lock,
\* and only while no unit is pending or running.
C7_WorkersLockedMainAlone ==
    /\ last_access.who \in AllTiles => last_access.locked
    /\ last_access.who = MainThread => ~last_access.locked /\ InFlight = {}

C7_Witness ==
    /\ last_access.who \in AllTiles
    /\ last_access.locked
    /\ unit_pc[last_access.who] = "ok_inc"
    /\ \E u \in AllTiles : unit_pc[u] = "hit_lock"

\* C8: the worker count follows the tiers (min(15, n) below 100 tiles, 10
\* below 500, 8 from 500 on), is at least 1, at most n and at most the
\* ceiling of its tier, and no more units than that run at once.
C8_TieredWorkers ==
    main_pc = "pool" =>
        LET n == total_tiles_to_download
            w == optimal_workers
        IN  /\ n < 100 => w = (IF n < 15 THEN n ELSE 15)
            /\ (100 <= n /\ n < 500) => w = 10
            /\ n >= 500 => w = 8
            /\ 1 <= w /\ w <= n /\ w <= 15
            /\ pool_running <= w
            /\ pool_running + pool_pending <= n

C8_Witness ==
    /\ main_pc = "pool"
    /\ total_tiles_to_download = 500
    /\ pool_running = 8
    /\ pool_pending > 0

\* C9: the tile range of any two corners at any zoom 0..20 has
\* minX <= maxX, minY <= maxY and all four bounds in [0, 2^zoom).
C9_RangeInsidePyramid ==
    main_pc = "ranged" =>
        /\ rect.min_tile_x <= rect.max_tile_x
        /\ rect.min_tile_y <= rect.max_tile_y
        /\ 0 <= rect.min_tile_x /\ rect.max_tile_x < Pow2(zoom_level)
        /\ 0 <= rect.min_tile_y /\ rect.max_tile_y < Pow2(zoom_level)

\* C10: the call with the two corners exchanged computes the same tile
\* range (minX, maxX, minY, maxY) as the first call.
C10_CornerOrderIrrelevant ==
    (main_pc = "ranged" /\ runs = 1) => rect = swapped_rect

C10_Witness ==
    /\ main_pc = "ranged"
    /\ runs = 1
    /\ rect = swapped_rect
    /\ zoom_level = MaxZoom
    /\ top_left_coord[1] < bottom_right_coord[1]
    /\ top_left_coord[2] > bottom_right_coord[2]
    /\ rect.min_tile_x < rect.max_tile_x
    /\ rect.min_tile_y < rect.max_tile_y

\* ------------------------------------------------ the world file on its own
\* stitch_tiles for every zoom, on rectangles of one or two tiles at the
\* west and north edge, next to it, a third of the way, in the middle and at
\* the east and south edge of the pyramid.
WorldZooms == 0 .. MaxZoom
WorldWidths == 1 .. 2
WorldCRS == {TilingCRS, DefaultCRS, "EPSG:32633"}
WorldTileIndexes(z) ==
    {i \in {0, 1, Pow2(z) \div 3, Pow2(z) \div 2, Pow2(z) - 1} : i < Pow2(z)}

InitWorld ==
    /\ InitCommon
    /\ total_tiles_to_download = 0
    /\ top_left_coord = <<0, 0>>
    /\ bottom_right_coord = <<0, 0>>
    /\ zoom_level \in WorldZooms
    /\ crs \in WorldCRS
    /\ \E x \in WorldTileIndexes(zoom_level), y \in WorldTileIndexes(zoom_level),
          w \in WorldWidths :
          /\ rect = [min_tile_x |-> x, max_tile_x |-> x + w - 1,
                     min_tile_y |-> y, max_tile_y |-> y]
          /\ tile_store = {TileKey(zoom_level, <<x, y>>)}
    /\ main_pc = "stitch"

NextWorld == Stitch

SpecWorld == InitWorld /\ [][NextWorld]_vars

\* ------------------------------------------------- the progress tracker
\* A run over the six-tile row at the moment every unit has its tile file,
\* found at line 184 (cached) or saved at line 199, and is about to enter its
\* with progress_lock block: the six updates then follow in any order.
SeqOfRow(r) == [i \in 1 .. TileCount(r) |-> CHOOSE t \in TilesOf(r) : RowMajorIndex(r, t) = i]

InitRates ==
    /\ zoom_level \in RateZooms
    /\ top_left_coord = RateTopLeft
    /\ bottom_right_coord = RateBottomRight
    /\ crs = DefaultCRS
    /\ rect = RateRect(zoom_level)
    /\ total_tiles_to_download = TileCount(rect)
    /\ optimal_workers = get_optimal_workers(total_tiles_to_download)
    /\ futures = SeqOfRow(rect)
    /\ tile_store = {TileKey(zoom_level, t) : t \in TilesOf(rect)}
    /\ store_at_start \in SUBSET {TileKey(zoom_level, futures[i]) : i \in 1 .. 2}
    /\ unit_pc = [t \in AllTiles |->
           IF t \notin TilesOf(rect) THEN "none"
           ELSE IF TileKey(zoom_level, t) \in store_at_start THEN "hit_lock" ELSE "ok_lock"]
    /\ unit_result = [t \in AllTiles |-> "none"]
    /\ fetch_attempts = [t \in AllTiles |-> IF unit_pc[t] = "ok_lock" THEN 1 ELSE 0]
    /\ jitter_sleeps = fetch_attempts
    /\ loaded_count = [t \in AllTiles |-> 0]
    /\ downloaded_tiles_count = 0
    /\ start_time = NoTime
    /\ download_rates = <<>>
    /\ progress_lock = <<>>
    /\ now = 0
    /\ last_access = NoAccess
    /\ eta = "none"
    /\ run_outcome = "none"
    /\ out_files = {}
    /\ stitched_image = NoImage
    /\ world_file = NoFile
    /\ aux_xml = NoFile
    /\ runs = 1
    /\ swapped_rect = NoRect
    /\ pool_pending = 0
    /\ pool_running = 0
    /\ main_pc = "wait"

NextRates ==
    \/ \E t \in AllTiles : AcquireLock(t)
    \/ \E t \in AllTiles : LoadCount(t)
    \/ \E t \in AllTiles : CacheHit(t)
    \/ \E t \in AllTiles : Downloaded(t)
    \/ Tick
    \/ AsCompleted

SpecRates == InitRates /\ [][NextRates]_vars

StitchedRect == rect.min_tile_x <= rect.max_tile_x /\ rect.min_tile_y <= rect.max_tile_y

\* C11: for a rectangle with minX <= maxX and minY <= maxY the composed
\* mosaic is (maxX-minX+1)*256 wide and (maxY-minY+1)*256 high, it has one
\* block per tile of the rectangle, the block at ((x-minX)*256, (y-minY)*256)
\* shows tile (x, y) when that tile is in the store and the background when it
\* is not; tiles (163,395)..(164,396) give four blocks in 512 x 512 pixels.
C11_MosaicLayout ==
    (main_pc = "done" /\ StitchedRect /\ stitched_image # NoImage) =>
        /\ stitched_image.img_width = (rect.max_tile_x - rect.min_tile_x + 1) * 256
        /\ stitched_image.img_height = (rect.max_tile_y - rect.min_tile_y + 1) * 256
        /\ Cardinality(DOMAIN stitched_image.blocks) = TileCount(rect)
        /\ \A x \in rect.min_tile_x .. rect.max_tile_x, y \in rect.min_tile_y .. rect.max_tile_y :
              LET b == <<(x - rect.min_tile_x) * 256, (y - rect.min_tile_y) * 256>>
              IN  /\ b \in DOMAIN stitched_image.blocks
                  /\ stitched_image.blocks[b] =
                        IF <<zoom_level, x, y>> \in tile_store
                        THEN <<zoom_level, x, y>>
                        ELSE <<>>
        /\ (rect.min_tile_x = 163 /\ rect.max_tile_x = 164 /\
            rect.min_tile_y = 395 /\ rect.max_tile_y = 396) =>
              /\ stitched_image.img_width = 512
              /\ stitched_image.img_height = 512
              /\ Cardinality(DOMAIN stitched_image.blocks) = 4

C11_Witness ==
    /\ main_pc = "done"
    /\ run_outcome = "stitched"
    /\ rect = [min_tile_x |-> 163, max_tile_x |-> 164, min_tile_y |-> 395, max_tile_y |-> 396]
    /\ tile_store = {<<10, 164, 395>>, <<10, 163, 396>>}
    /\ stitched_image.img_width = 512
    /\ stitched_image.blocks[<<256, 0>>] = <<10, 164, 395>>
    /\ stitched_image.blocks[<<0, 0>>] = <<>>

\* C12: stitch_tiles called with maxX < minX or maxY < minY ends with
\* 'nothing to stitch': no mosaic, no world file, no projection sidecar.
C12_EmptyRectangleWritesNothing ==
    (main_pc = "done" /\ ~StitchedRect) =>
        /\ run_outcome = "no_valid_tiles"
        /\ out_files = {}
        /\ stitched_image = NoImage
        /\ world_file = NoFile
        /\ aux_xml = NoFile

C12_Witness ==
    /\ main_pc = "done"
    /\ rect.max_tile_x = rect.min_tile_x - 1
    /\ rect.min_tile_y <= rect.max_tile_y
    /\ tile_store # {}
    /\ run_outcome = "no_valid_tiles"

\* C13: with a CRS string that cannot be resolved the stitch goes on with
\* EPSG:4326: whatever sidecar is written carries that CRS, and a stitch in
\* which no statement raises writes the mosaic, the world file and the
\* projection sidecar.
C13_InvalidCRSFallsBack ==
    (main_pc = "done" /\ StitchedRect /\ crs \notin {"EPSG:4326", "EPSG:3857", "EPSG:32633"}) =>
        /\ run_outcome \in {"stitched", "stitch_error"}
        /\ world_file # NoFile => world_file.target_crs = "EPSG:4326"
        /\ aux_xml # NoFile => aux_xml.SRS = "EPSG:4326"
        /\ run_outcome = "stitched" =>
              /\ out_files = {"mosaic", "world", "aux"}
              /\ world_file # NoFile
              /\ aux_xml # NoFile

C13_Witness ==
    /\ main_pc = "done"
    /\ crs = "bogus"
    /\ run_outcome = "stitched"
    /\ out_files = {"mosaic", "world", "aux"}
    /\ aux_xml = [SRS |-> "EPSG:4326"]
    /\ world_file.target_crs = "EPSG:4326"

\* C14 as stated: with the tiling CRS as target the pixel size computed is
\* the resolution itself (x: +resolution, y: -resolution), the origin is
\* tile_to_meters(minX, minY, zoom), and the six values are written in the
\* order pixel size x, 0, 0, pixel size y, origin x, origin y.
C14_PixelSizeEqualsResolution ==
    (main_pc = "done" /\ world_file # NoFile /\ world_file.target_crs = "EPSG:3857") =>
        LET res == resolution(zoom_level)
            origin == tile_to_meters(rect.min_tile_x, rect.min_tile_y, zoom_level)
        IN  /\ world_file.values = <<res, Zero, Zero, Negated(res), origin[1], origin[2]>>
            /\ world_file.lines = [i \in 1 .. 6 |-> FormatFixed(world_file.values[i])]

\* C14: with the tiling CRS as target the pixel size computed is within
\* 2^-29 m of the resolution (x: +resolution, y: -resolution), the rounding
\* of the sum mx + resolution, the origin is exactly tile_to_meters(minX,
\* minY, zoom), and the six values are written with 10 fractional digits in
\* the order pixel size x, 0, 0, pixel size y, origin x, origin y.
C14_PixelSizeWithinRounding ==
    (main_pc = "done" /\ world_file # NoFile /\ world_file.target_crs = "EPSG:3857") =>
        LET res == resolution(zoom_level)
            origin == tile_to_meters(rect.min_tile_x, rect.min_tile_y, zoom_level)
            values == world_file.values
        IN  /\ Len(values) = 6
            /\ WithinPow2(values[1], res, QuantumBits - 29)
            /\ ~values[1].neg
            /\ values[2] = Zero
            /\ values[3] = Zero
            /\ WithinPow2(values[4], Negated(res), QuantumBits - 29)
            /\ values[4].neg
            /\ values[5] = origin[1]
            /\ values[6] = origin[2]
            /\ world_file.lines = [i \in 1 .. 6 |-> FormatFixed(values[i])]

C14_Witness ==
    /\ main_pc = "done"
    /\ run_outcome = "stitched"
    /\ world_file.target_crs = "EPSG:3857"
    /\ zoom_level = 3
    /\ rect.min_tile_x = 1
    /\ rect.min_tile_y = 2
    /\ world_file.values[1] # resolution(zoom_level)
    /\ world_file.values[5].neg
    /\ ~world_file.values[6].neg

\* C15: a step that writes a tile file writes a key that is not yet in the
\* store, no step removes a key or writes an existing one, no tile is
\* submitted twice in a run, and once submission is over the number of
\* submitted units is the total tile count, one unit per tile of the
\* rectangle.
C15_StoreAppendOnly ==
    /\ [][/\ tile_store \subseteq tile_store'
          /\ \A t \in AllTiles :
                (unit_pc[t] = "save" /\ unit_pc'[t] = "ok_lock") =>
                    /\ <<zoom_level, t[1], t[2]>> \notin tile_store
                    /\ tile_store' = tile_store \cup {<<zoom_level, t[1], t[2]>>}]_vars
    /\ [](/\ \A i, j \in 1 .. Len(futures) : futures[i] = futures[j] => i = j
          /\ Len(futures) <= total_tiles_to_download
          /\ main_pc \in {"wait", "decide", "stitch"} =>
                /\ Len(futures) = total_tiles_to_download
                /\ {futures[i] : i \in 1 .. Len(futures)} = RunTiles
          /\ \A t \in AllTiles :
                unit_pc[t] \in {"sleep", "request", "save"} =>
                    <<zoom_level, t[1], t[2]>> \notin tile_store)

C15_Witness ==
    /\ runs = 2
    /\ main_pc = "decide"
    /\ Len(futures) = 3
    /\ unit_result[futures[1]] = "cached"
    /\ unit_result[futures[2]] = "saved"
    /\ unit_result[futures[3]] = "request_error"
    /\ <<zoom_level, futures[2][1], futures[2][2]>> \notin store_at_start

\* C17: whenever the completed count is at least 1 the start timestamp is
\* set.
C17_StartSetOnceCounted == downloaded_tiles_count >= 1 => start_time # NoTime

\* C18: a run begins with the counter at 0, no start timestamp, an empty rate
\* history and no unit submitted; with these values the total becomes the
\* tile count of the rectangle before the first unit is submitted; during the
\* run the counter, the timestamp and the samples come from units of this run
\* alone.
C18_ResetBeforeSubmit ==
    LET Counted == {t \in AllTiles : unit_result[t] \in {"cached", "saved"}}
        Fresh == /\ downloaded_tiles_count = 0
                 /\ start_time = NoTime
                 /\ download_rates = <<>>
                 /\ futures = <<>>
    IN  /\ main_pc = "range" => Fresh /\ total_tiles_to_download = 0
        /\ (main_pc = "submit" /\ futures = <<>>) =>
              Fresh /\ total_tiles_to_download = TileCount(rect)
        /\ main_pc \notin {"idle", "range"} =>
              /\ total_tiles_to_download = TileCount(rect)
              /\ downloaded_tiles_count <= Cardinality(Counted)
              /\ Len(download_rates) <= downloaded_tiles_count
              /\ start_time # NoTime =>
                    \E t \in AllTiles : unit_pc[t] \in {"ok_inc", "done"} /\
                                        unit_result[t] \in {"none", "saved"} /\
                                        fetch_attempts[t] = 1

C18_Witness ==
    /\ runs = 2
    /\ main_pc = "submit"
    /\ futures = <<>>
    /\ total_tiles_to_download = 3
    /\ downloaded_tiles_count = 0
    /\ start_time = NoTime
    /\ download_rates = <<>>
    /\ now = MaxTime
    /\ Cardinality(tile_store) = 3

\* C19: the progress lock is held only by a worker that is between taking
\* it and leaving its with block (count, ETA, message); a worker that is
\* queued, sleeping, requesting, saving, waiting for the lock or finished does
\* not hold it, and whenever a worker waits for the lock either the lock is
\* free or its holder is at a step that releases it without waiting.
C19_LockOnlyAroundProgress ==
    LET Inside == {"hit_cs", "hit_inc", "ok_cs", "ok_inc", "err_cs"}
        Waiting == {"hit_lock", "ok_lock", "err_lock"}
    IN  /\ \A t \in AllTiles : progress_lock = <<t>> <=> unit_pc[t] \in Inside
        /\ progress_lock = <<>> \/ \E t \in AllTiles : progress_lock = <<t>>
        /\ Cardinality({t \in AllTiles : unit_pc[t] \in Inside}) <= 1
        /\ (\E t \in AllTiles : unit_pc[t] \in Waiting) =>
              \/ progress_lock = <<>>
              \/ \E u \in AllTiles : progress_lock = <<u>> /\ unit_pc[u] \in Inside
        /\ main_pc \in {"idle", "range", "decide", "stitch", "done"} => progress_lock = <<>>

C19_Witness ==
    \E t, u, v \in AllTiles :
        /\ unit_pc[t] = "err_cs"
        /\ progress_lock = <<t>>
        /\ unit_pc[u] = "request"
        /\ unit_pc[v] = "ok_lock"

\* C20: during a run the completed count is at most the number of tiles of
\* the rectangle that are in the store, which is at most the total tile count.
C20_CountWithinStoredWithinTotal ==
    main_pc \notin {"idle", "range"} =>
        LET stored == Cardinality({t \in TilesOf(rect) :
                                      <<zoom_level, t[1], t[2]>> \in tile_store})
        IN  /\ downloaded_tiles_count <= stored
            /\ stored <= total_tiles_to_download

C20_Witness ==
    /\ main_pc = "wait"
    /\ total_tiles_to_download = 3
    /\ downloaded_tiles_count = 1
    /\ Cardinality(StoredRunTiles) = 2
    /\ \E t \in AllTiles : unit_result[t] = "unexpected_error"

\* C16: the rate history never holds more than 5 samples; every update of
\* a run whose start timestamp is set appends exactly one sample, the rate of
\* the new count, and drops the oldest sample when that makes six, the samples
\* kept staying in their order of arrival; nothing else changes the history
\* but the reset of a new run, which empties it.
C16_RateHistoryBounded ==
    /\ [](Len(download_rates) <= 5)
    /\ [][/\ (downloaded_tiles_count' = downloaded_tiles_count + 1 /\ start_time # NoTime) =>
                LET n == Len(download_rates)
                    m == Len(download_rates')
                IN  /\ m = IF n < 5 THEN n + 1 ELSE 5
                    /\ \A i \in 1 .. m - 1 : download_rates'[i] = download_rates[i + n + 1 - m]
                    /\ download_rates'[m][1] \in {0, downloaded_tiles_count'}
          /\ download_rates' # download_rates =>
                \/ download_rates' = <<>> /\ main_pc' = "range"
                \/ downloaded_tiles_count' = downloaded_tiles_count + 1 /\ start_time # NoTime]_vars

C16_Witness ==
    /\ downloaded_tiles_count = 6
    /\ Len(download_rates) = 5
    /\ download_rates[1] = <<2, 1>>
    /\ download_rates[4] = <<5, 1>>
    /\ download_rates[5] = <<6, 2>>
    /\ \E t \in AllTiles : unit_result[t] = "cached"

====
